---- MODULE Spec2Model ----
(***************************************************************************)
(* Model of the arc-diagram renderer of RNA_Fold_arcPlot.ipynb: the two    *)
(* notebook cells that define generate_arc_plot (PDF cell, SVG cell) and   *)
(* the calls made to whichever definition is bound.                        *)
(*                                                                         *)
(* Number representation (all quantities exact, no floats):                *)
(*   score          -log10(Probability) in units of 1e-5 (0.09691 = 9691)  *)
(*   center_x2      2 * center          (center = (i + j) / 2.0)           *)
(*   max_arc_height_x2   2 * max_arc_height                                *)
(*   fig_height_x8  8 * fig_height      (fig_height = max_arc_height / 4)  *)
(*   fig_width      the value of (end_nt - start_nt) / 4 as the Python 2   *)
(*                  kernel of the notebook computes it on two ints         *)
(***************************************************************************)
EXTENDS Integers, Sequences, FiniteSets

\* ---- bounds of the model ----
MaxLen == 2
MaxRows == 2
MaxCalls == 2
MaxPredictCalls == 4

\* ---- program constants (units of 1e-5) ----
GREEN_MAX == 9691
BLUE_MAX == 52288
YELLOW_MAX == 100000
CUTOFF == 200000
FIG_DIVISOR == 4

\* scores a table row can carry in the render specification: one per colour,
\* and the two sides of the cutoff
Scores == {GREEN_MAX, BLUE_MAX, YELLOW_MAX, CUTOFF - 1, CUTOFF}

\* scores of the classification specification: both sides of every threshold
ScoreGrid ==
    {0, 5000, GREEN_MAX - 1, GREEN_MAX, GREEN_MAX + 1, 30000,
     BLUE_MAX - 1, BLUE_MAX, BLUE_MAX + 1, 90000,
     YELLOW_MAX - 1, YELLOW_MAX, YELLOW_MAX + 1, 150000,
     CUTOFF - 1, CUTOFF, CUTOFF + 1, 250000}

Exts == {"pdf", "svg"}

VARIABLES
    dp_file,            \* the .dp table: [header_ok, total_length, rows]
    disk,               \* state of the output destination: "ok", "unwritable", "fills"
    defined,            \* definition the name generate_arc_plot is bound to
    calls,              \* calls of generate_arc_plot made so far
    pc,                 \* outcome of the last call: "idle", "done", "raised"
    err,                \* exception the last call raised, "none" if none
    start_nt, end_nt,   \* arguments of the last call
    prob_df,            \* rows the last call kept after the cutoff
    max_arc_height_x2,
    fig_width,
    fig_height_x8,
    canvas,             \* plt.subplots returned a figure in the last call
    patches,            \* arcs given to ax.add_patch, in call order
    written,            \* extensions the last call saved
    files,              \* '<name>.<ext>' on disk: what it encodes
    out_dir,            \* output_dir of predict_rna_structure_prob: for each of
                        \* '<rna_name>.seq/.ct/.pfs/.prob/.dp' the number of the
                        \* call whose sequence it derives from, 0 when absent
    pcalls,             \* calls of predict_rna_structure_prob made so far
    steps,              \* external steps the last such call ran, in order
    exits,              \* their exit statuses: "ok", "fail", "notrun"
    printed,            \* messages the last such call printed
    perr                \* exception the last such call raised, "none" if none

rvars == <<dp_file, disk, defined, calls, pc, err, start_nt, end_nt, prob_df,
           max_arc_height_x2, fig_width, fig_height_x8, canvas, patches,
           written, files>>

pvars == <<out_dir, pcalls, steps, exits, printed, perr>>

vars == <<rvars, pvars>>

\* ---- the input table ----
RowSet(L) == [i : 1..L, j : 1..L, score : Scores]

TablesOfLength(L, maxRows) ==
    UNION {[header_ok : {TRUE}, total_length : {L}, rows : [1..n -> RowSet(L)]] :
              n \in 0..maxRows}

TableSet == UNION {TablesOfLength(L, MaxRows) : L \in 1..MaxLen}

NotebookTables == UNION {TablesOfLength(L, 1) : L \in 1..MaxLen}

BandTables ==
    {[header_ok |-> TRUE, total_length |-> 2,
      rows |-> <<[i |-> 1, j |-> 2, score |-> s]>>] : s \in ScoreGrid}

\* tables of the output specification: the first line may fail to parse
IOTables ==
    {[t EXCEPT !.header_ok = h] : t \in NotebookTables, h \in BOOLEAN}

\* pd.read_csv: every data row becomes a DataFrame row labelled by its position
read_csv(rows) ==
    [k \in 1..Len(rows) |->
        [idx |-> k, i |-> rows[k].i, j |-> rows[k].j, log_prob |-> rows[k].score]]

\* ---- generate_arc_plot, statement by statement ----

\* variant: the cutoff keeps the boundary score 2.0
CutoffFilter_Inclusive(df) == SelectSeq(df, LAMBDA r : r.log_prob <= CUTOFF)

\* prob_df = prob_df[prob_df['-log10(Probability)'] < 2]
CutoffFilter(df) == SelectSeq(df, LAMBDA r : r.log_prob < CUTOFF)

\* variant: the length check is off by one
ExceedsLength_OffByOne(e, total_length) == e > total_length + 1

\* if end_nt > total_length: raise ValueError
ExceedsLength(e, total_length) == e > total_length

\* filtered_prob_df = prob_df[(prob_df['j'] <= end_nt) & (prob_df['i'] >= start_nt)]
HeightFilter(df, s, e) == SelectSeq(df, LAMBDA r : r.j <= e /\ r.i >= s)

SetMax(S) == CHOOSE m \in S : \A x \in S : x <= m

\* max(filtered_prob_df['j'] - filtered_prob_df['i']) / 2.0, or 0 when empty
MaxArcHeightX2(filtered) ==
    IF filtered # <<>>
    THEN SetMax({filtered[k].j - filtered[k].i : k \in 1..Len(filtered)})
    ELSE 0

\* fig_width = (end_nt - start_nt) / 4 on two ints under the Python 2 kernel:
\* floor division
FigWidth(s, e) == (e - s) \div FIG_DIVISOR

\* fig_height = max_arc_height / 4; max_arc_height is a float or the int 0
FigHeightX8(height_x2) == height_x2

\* variant: only i is tested against the window
InRange_OnlyI(i, j, s, e) == s <= i /\ i <= e

\* if start_nt <= i <= end_nt and start_nt <= j <= end_nt
InRange(i, j, s, e) == s <= i /\ i <= e /\ s <= j /\ j <= e

\* variant: the thresholds are exclusive
Classify_Exclusive(log_prob) ==
    IF log_prob < GREEN_MAX THEN [color |-> "green", priority |-> 3]
    ELSE IF log_prob < BLUE_MAX THEN [color |-> "#1C73BE", priority |-> 2]
    ELSE IF log_prob < YELLOW_MAX THEN [color |-> "#F7CE12", priority |-> 1]
    ELSE [color |-> "#D3D3D3", priority |-> 0]

\* the if / elif chain on log_prob
Classify(log_prob) ==
    IF log_prob <= GREEN_MAX THEN [color |-> "green", priority |-> 3]
    ELSE IF log_prob <= BLUE_MAX THEN [color |-> "#1C73BE", priority |-> 2]
    ELSE IF log_prob <= YELLOW_MAX THEN [color |-> "#F7CE12", priority |-> 1]
    ELSE [color |-> "#D3D3D3", priority |-> 0]

\* Arc((center, 0), j - i, j - i, theta1=0, theta2=180, color=color), priority
MakeArc(r) ==
    [idx |-> r.idx, i |-> r.i, j |-> r.j, log_prob |-> r.log_prob,
     center_x2 |-> r.i + r.j, width |-> r.j - r.i, height |-> r.j - r.i,
     color |-> Classify(r.log_prob).color,
     priority |-> Classify(r.log_prob).priority]

\* the loop over prob_df.iterrows() that appends to arc_list
ArcList(df, s, e) ==
    LET inside == SelectSeq(df, LAMBDA r : InRange(r.i, r.j, s, e))
    IN [k \in 1..Len(inside) |-> MakeArc(inside[k])]

\* variant: an unstable sort that leaves equal priorities in reverse order
SortByPriority_Unstable(arc_list) ==
    LET rev(q) == [k \in 1..Len(q) |-> q[Len(q) + 1 - k]]
    IN rev(SelectSeq(arc_list, LAMBDA a : a.priority = 0))
       \o rev(SelectSeq(arc_list, LAMBDA a : a.priority = 1))
       \o rev(SelectSeq(arc_list, LAMBDA a : a.priority = 2))
       \o rev(SelectSeq(arc_list, LAMBDA a : a.priority = 3))

\* variant: the sort is skipped
SortByPriority_Skipped(arc_list) == arc_list

\* arc_list.sort(key=lambda x: x[1]): list.sort is stable
SortByPriority(arc_list) ==
    SelectSeq(arc_list, LAMBDA a : a.priority = 0)
    \o SelectSeq(arc_list, LAMBDA a : a.priority = 1)
    \o SelectSeq(arc_list, LAMBDA a : a.priority = 2)
    \o SelectSeq(arc_list, LAMBDA a : a.priority = 3)

\* variant: the second cell still saves '<name>.pdf'
OutputExt_AlwaysPdf(def) == "pdf"

\* plt.savefig('{}.pdf'.format(name)) in the first cell, '{}.svg' in the second
OutputExt(def) == IF def = "pdf" THEN "pdf" ELSE "svg"

\* plt.subplots(figsize=(fig_width, fig_height)): matplotlib is not part of the
\* repository; releases differ on a negative figure size (some raise
\* ValueError, some build the figure), so both outcomes are possible.
SubplotsOutcomes(width, height_x8) ==
    IF width < 0 \/ height_x8 < 0 THEN {"figure", "ValueError"} ELSE {"figure"}

NoFile ==
    [exists |-> FALSE, complete |-> FALSE, start_nt |-> 0, end_nt |-> 0, fig_width |-> 0,
     fig_height_x8 |-> 0, ylim_x2 |-> 0, patches |-> <<>>]

\* what the saved figure encodes: axes limits, figure size and the arcs
Encoded(s, e, width, height_x2, arcs) ==
    [exists |-> TRUE, complete |-> TRUE, start_nt |-> s, end_nt |-> e, fig_width |-> width,
     fig_height_x8 |-> FigHeightX8(height_x2), ylim_x2 |-> height_x2 + 1,
     patches |-> arcs]

\* the file plt.savefig leaves when writing fails part-way: it opens the
\* destination path itself for writing, so the path holds a truncated file
Truncated == [NoFile EXCEPT !.exists = TRUE]

\* plt.savefig('{}.svg'.format(name)): the file at the destination afterwards
SaveFig(old, new, d) ==
    IF d = "ok" THEN new
    ELSE IF d = "unwritable" THEN old
    ELSE Truncated

\* a call that raises before the figure exists
Raise(s, e, df, kind) ==
    /\ pc' = "raised"
    /\ err' = kind
    /\ start_nt' = s
    /\ end_nt' = e
    /\ prob_df' = df
    /\ canvas' = FALSE
    /\ patches' = <<>>
    /\ written' = {}
    /\ UNCHANGED files

\* one call generate_arc_plot(s, e, dp_file, name) of the bound definition
GenerateArcPlot(s, e) ==
    /\ defined # "none"
    /\ calls' = calls + 1
    /\ UNCHANGED <<dp_file, disk, defined>>
    /\ UNCHANGED pvars
    /\ LET total_length == dp_file.total_length
           df == CutoffFilter(read_csv(dp_file.rows))
           height_x2 == MaxArcHeightX2(HeightFilter(df, s, e))
           width == FigWidth(s, e)
           arcs == SortByPriority(ArcList(df, s, e))
       IN IF ~dp_file.header_ok
          THEN /\ Raise(s, e, <<>>, "invalid literal for int()")
               /\ max_arc_height_x2' = 0
               /\ fig_width' = 0
               /\ fig_height_x8' = 0
          ELSE IF ExceedsLength(e, total_length)
          THEN /\ Raise(s, e, df, "end_nt exceeds the total length")
               /\ max_arc_height_x2' = 0
               /\ fig_width' = 0
               /\ fig_height_x8' = 0
          ELSE /\ max_arc_height_x2' = height_x2
               /\ fig_width' = width
               /\ fig_height_x8' = FigHeightX8(height_x2)
               /\ \E outcome \in SubplotsOutcomes(width, FigHeightX8(height_x2)) :
                    IF outcome = "ValueError"
                    THEN Raise(s, e, df, "figure size")
                    ELSE /\ pc' = IF disk = "ok" THEN "done" ELSE "raised"
                         /\ err' = IF disk = "ok" THEN "none" ELSE "IOError"
                         /\ start_nt' = s
                         /\ end_nt' = e
                         /\ prob_df' = df
                         /\ canvas' = TRUE
                         /\ patches' = arcs
                         /\ written' = IF disk = "ok" THEN {OutputExt(defined)} ELSE {}
                         /\ files' = [files EXCEPT ![OutputExt(defined)] =
                                         SaveFig(@, Encoded(s, e, width, height_x2, arcs),
                                                 disk)]

\* running the cell 'Section 2a. Generate arc plot (PDF)'
RunCellPDF ==
    /\ defined = "none"
    /\ defined' = "pdf"
    /\ UNCHANGED <<dp_file, disk, calls, pc, err, start_nt, end_nt, prob_df,
                   max_arc_height_x2, fig_width, fig_height_x8, canvas,
                   patches, written, files>>
    /\ UNCHANGED pvars

\* running the cell 'Section 2a. Generate arc plot (SVG)': rebinds the name
RunCellSVG ==
    /\ defined = "pdf"
    /\ defined' = "svg"
    /\ UNCHANGED <<dp_file, disk, calls, pc, err, start_nt, end_nt, prob_df,
                   max_arc_height_x2, fig_width, fig_height_x8, canvas,
                   patches, written, files>>
    /\ UNCHANGED pvars

\* requests: start_nt inside the sequence, end_nt up to one past its end
Starts == 1..MaxLen
Ends == 1..(MaxLen + 1)

\* files predict_rna_structure_prob names after rna_name
Suffixes == {"seq", "ct", "pfs", "prob", "dp"}

\* the RNAstructure executables it calls
Tools == {"Fold", "Partition", "ProbabilityPlot"}

Fresh ==
    /\ calls = 0
    /\ pc = "idle"
    /\ err = "none"
    /\ start_nt = 0
    /\ end_nt = 0
    /\ prob_df = <<>>
    /\ max_arc_height_x2 = 0
    /\ fig_width = 0
    /\ fig_height_x8 = 0
    /\ canvas = FALSE
    /\ patches = <<>>
    /\ written = {}
    /\ files = [x \in Exts |-> NoFile]
    /\ out_dir = [x \in Suffixes |-> 0]
    /\ pcalls = 0
    /\ steps = <<>>
    /\ exits = [x \in Tools |-> "notrun"]
    /\ printed = {}
    /\ perr = "none"

\* ---- render specification: one call, after the notebook's cells ran ----
Init ==
    /\ dp_file \in TableSet
    /\ disk = "ok"
    /\ defined = "svg"
    /\ Fresh

Render == calls = 0 /\ \E s \in Starts, e \in Ends : GenerateArcPlot(s, e)

Next == Render

Spec == Init /\ [][Next]_vars

\* ---- classification specification: one row, scores around every threshold ----
InitBand ==
    /\ dp_file \in BandTables
    /\ disk = "ok"
    /\ defined = "svg"
    /\ Fresh

SpecBand == InitBand /\ [][Next]_vars

\* ---- notebook specification: the cells in order, calls in between ----
InitNotebook ==
    /\ dp_file \in NotebookTables
    /\ disk = "ok"
    /\ defined = "none"
    /\ Fresh

Call == calls < MaxCalls /\ \E s \in Starts, e \in Ends : GenerateArcPlot(s, e)

NextNotebook == RunCellPDF \/ RunCellSVG \/ Call

SpecNotebook == InitNotebook /\ [][NextNotebook]_vars

\* ---- predict_rna_structure_prob ----

\* subprocess.call([tool, input, output]): the output file afterwards. A tool
\* that exits 0 wrote it from this call's input; what a failing tool leaves is
\* not decided by the notebook: the old file, or none.
ToolOutput(old, n, ok, left) ==
    IF ok THEN n ELSE IF left = "untouched" THEN old ELSE 0

Status(ok) == IF ok THEN "ok" ELSE "fail"

\* an early 'return None' after a failing Fold or Partition
ReturnEarly(ran, statuses, message) ==
    /\ steps' = ran
    /\ exits' = statuses
    /\ printed' = {message}
    /\ perr' = "none"

\* generate_prob_file: what it prints
ProbMessage(ok) ==
    IF ok THEN "Text-based probability plot saved"
    ELSE "Error running ProbabilityPlot"

\* one call predict_rna_structure_prob(rna_sequence, rna_name, output_dir)
PredictRnaStructureProb(fold_ok, partition_ok, prob_ok, left) ==
    /\ pcalls' = pcalls + 1
    /\ UNCHANGED rvars
    /\ LET n == pcalls + 1
           ct == ToolOutput(out_dir["ct"], n, fold_ok, left)
           pfs == ToolOutput(out_dir["pfs"], n, partition_ok, left)
           \* ProbabilityPlot --text reads the .pfs file Partition just wrote
           prob == ToolOutput(out_dir["prob"], pfs, prob_ok, left)
           none == [x \in Tools |-> "notrun"]
       IN IF ~fold_ok
          THEN /\ out_dir' = [out_dir EXCEPT !["seq"] = n, !["ct"] = ct]
               /\ ReturnEarly(<<"Fold">>, [none EXCEPT !["Fold"] = "fail"],
                              "Error running Fold")
          ELSE IF ~partition_ok
          THEN /\ out_dir' = [out_dir EXCEPT !["seq"] = n, !["ct"] = ct,
                                              !["pfs"] = pfs]
               /\ ReturnEarly(<<"Fold", "Partition">>,
                              [none EXCEPT !["Fold"] = "ok", !["Partition"] = "fail"],
                              "Error running Partition")
          ELSE \* generate_prob_file returns None on failure; the caller does
               \* not look at it and goes on to convert_prob_to_dp
               /\ steps' = <<"Fold", "Partition", "ProbabilityPlot", "copy">>
               /\ exits' = [Fold |-> "ok", Partition |-> "ok",
                            ProbabilityPlot |-> Status(prob_ok)]
               /\ IF prob # 0
                  THEN \* convert_prob_to_dp copies the .prob file line by line
                       /\ out_dir' = [out_dir EXCEPT !["seq"] = n, !["ct"] = ct,
                                                      !["pfs"] = pfs, !["prob"] = prob,
                                                      !["dp"] = prob]
                       /\ printed' = {ProbMessage(prob_ok),
                                      "Converted .prob to .dp format",
                                      "Dot plot file generated"}
                       /\ perr' = "none"
                  ELSE \* open(prob_file, 'r') raises before the .dp is opened
                       /\ out_dir' = [out_dir EXCEPT !["seq"] = n, !["ct"] = ct,
                                                      !["pfs"] = pfs, !["prob"] = prob]
                       /\ printed' = {ProbMessage(prob_ok)}
                       /\ perr' = "IOError"

Leaves == {"untouched", "absent"}

Predict ==
    /\ pcalls < MaxPredictCalls
    /\ \E fold_ok \in BOOLEAN, partition_ok \in BOOLEAN, prob_ok \in BOOLEAN,
          left \in Leaves :
            PredictRnaStructureProb(fold_ok, partition_ok, prob_ok, left)

InitPredict ==
    /\ dp_file = [header_ok |-> TRUE, total_length |-> 1, rows |-> <<>>]
    /\ disk = "ok"
    /\ defined = "none"
    /\ Fresh

NextPredict == Predict

SpecPredict == InitPredict /\ [][NextPredict]_vars

\* ---- output specification: calls while the destination may fail ----
DiskStates == {"ok", "unwritable", "fills"}

InitIO ==
    /\ dp_file \in IOTables
    /\ disk = "ok"
    /\ defined = "svg"
    /\ Fresh

\* the destination becomes unwritable, fills up, or recovers
DiskEvent ==
    /\ \E d \in DiskStates \ {disk} : disk' = d
    /\ UNCHANGED <<dp_file, defined, calls, pc, err, start_nt, end_nt, prob_df,
                   max_arc_height_x2, fig_width, fig_height_x8, canvas,
                   patches, written, files>>
    /\ UNCHANGED pvars

NextIO == Call \/ DiskEvent

SpecIO == InitIO /\ [][NextIO]_vars

\* ---- properties ----

Abs(x) == IF x < 0 THEN 0 - x ELSE x

Rows == dp_file.rows

RangeError == "end_nt exceeds the total length"

\* C1: the arcs given to ax.add_patch are in non-decreasing draw priority: no
\* arc is added after an arc of higher priority.
C1_OcclusionOrder ==
    \A a, b \in 1..Len(patches) :
        a < b => patches[a].priority <= patches[b].priority

\* C1 witness: two arcs were drawn, and the one with the higher priority comes
\* first in the table.
C1_Witness ==
    /\ pc = "done"
    /\ \E a, b \in 1..Len(patches) :
        /\ a < b
        /\ patches[a].priority < patches[b].priority
        /\ patches[a].idx > patches[b].idx

\* C2: every drawn arc has the colour and priority of the band its score falls
\* in, the bands being (-inf, 0.09691], (0.09691, 0.52288], (0.52288, 1.0] and
\* (1.0, 2.0): green/3, #1C73BE/2, #F7CE12/1, #D3D3D3/0.
C2_Bands ==
    \A k \in 1..Len(patches) :
        LET x == patches[k].log_prob
            band == <<patches[k].color, patches[k].priority>>
        IN /\ x = Rows[patches[k].idx].score
           /\ x < 200000
           /\ (x <= 9691) => band = <<"green", 3>>
           /\ (9691 < x /\ x <= 52288) => band = <<"#1C73BE", 2>>
           /\ (52288 < x /\ x <= 100000) => band = <<"#F7CE12", 1>>
           /\ (100000 < x) => band = <<"#D3D3D3", 0>>

\* C2 witness: an arc with the boundary score 0.09691 was drawn.
C2_Witness ==
    /\ pc = "done"
    /\ \E k \in 1..Len(patches) : patches[k].log_prob = 9691

\* C3: a row with score >= 2.0 gives no arc and has no influence on the canvas
\* height (the height is the one the call computes on the table without these
\* rows); a row with score < 2.0 is never removed by the cutoff.
C3_Cutoff ==
    pc # "idle" =>
        /\ \A k \in 1..Len(patches) : Rows[patches[k].idx].score < 200000
        /\ \A k \in 1..Len(prob_df) : Rows[prob_df[k].idx].score < 200000
        /\ \A n \in 1..Len(Rows) :
            Rows[n].score < 200000 => \E k \in 1..Len(prob_df) : prob_df[k].idx = n
        /\ err # RangeError =>
            max_arc_height_x2 =
                MaxArcHeightX2(HeightFilter(
                    read_csv(SelectSeq(Rows, LAMBDA r : r.score < 200000)),
                    start_nt, end_nt))

\* C3 witness: a call drew an arc while the table holds a row with score 2.0
\* inside the window that spans more than every drawn arc.
C3_Witness ==
    /\ pc = "done"
    /\ patches # <<>>
    /\ \E n \in 1..Len(Rows) :
        /\ Rows[n].score = 200000
        /\ start_nt <= Rows[n].i /\ Rows[n].i < Rows[n].j /\ Rows[n].j <= end_nt
        /\ Rows[n].j - Rows[n].i > max_arc_height_x2

\* C4: after a call that completed, a row that passed the cutoff has exactly
\* one arc when both i and j are inside [start_nt, end_nt] and none otherwise,
\* and every arc is the arc of a table row.
C4_Window ==
    pc = "done" =>
        /\ \A n \in 1..Len(Rows) :
            Rows[n].score < 200000 =>
                Cardinality({k \in 1..Len(patches) : patches[k].idx = n}) =
                    IF /\ start_nt <= Rows[n].i /\ Rows[n].i <= end_nt
                       /\ start_nt <= Rows[n].j /\ Rows[n].j <= end_nt
                    THEN 1 ELSE 0
        /\ \A k \in 1..Len(patches) :
            /\ patches[k].idx \in 1..Len(Rows)
            /\ patches[k].i = Rows[patches[k].idx].i
            /\ patches[k].j = Rows[patches[k].idx].j

\* C4 witness: one row was drawn and another, below the cutoff, was left out
\* because one endpoint is outside the window.
C4_Witness ==
    /\ pc = "done"
    /\ Len(patches) = 1
    /\ \E n \in 1..Len(Rows) :
        /\ Rows[n].score < 200000
        /\ Rows[n].i < start_nt
        /\ Rows[n].j <= end_nt /\ start_nt <= Rows[n].j

\* C5: a call with end_nt > total_length raises the range error, and no figure
\* is created, no arc added and no file written by it.
C5_RangeExceedsSequence ==
    (pc # "idle" /\ end_nt > dp_file.total_length) =>
        /\ pc = "raised"
        /\ err = RangeError
        /\ ~canvas
        /\ patches = <<>>
        /\ written = {}
        /\ \A x \in Exts : ~files[x].exists

\* C5 witness: the range error was raised on a table that has a row below the
\* cutoff.
C5_Witness ==
    /\ pc = "raised"
    /\ err = RangeError
    /\ end_nt > dp_file.total_length
    /\ prob_df # <<>>

\* C6: a call with start_nt > end_nt (end_nt within the sequence) raises
\* InvalidRange before a figure is created, adds no arc and writes no file.
C6_InvalidRange ==
    (pc # "idle" /\ start_nt > end_nt /\ end_nt <= dp_file.total_length) =>
        /\ pc = "raised"
        /\ err = "InvalidRange"
        /\ ~canvas
        /\ patches = <<>>
        /\ written = {}

\* C7: after a call that completed, max_arc_height is the largest |j - i| / 2
\* over the drawn arcs, 0 when none is drawn, never negative, and fig_height is
\* max_arc_height / 4.
C7_Height ==
    pc = "done" =>
        /\ max_arc_height_x2 =
            IF patches = <<>> THEN 0
            ELSE SetMax({Abs(patches[k].j - patches[k].i) : k \in 1..Len(patches)})
        /\ max_arc_height_x2 >= 0
        /\ fig_height_x8 = max_arc_height_x2

\* C8: every arc has center (i + j) / 2 and width and height |j - i|, both
\* non-negative, and two arcs of rows that are each other's swap have the same
\* center and span.
C8_ArcGeometry ==
    /\ \A k \in 1..Len(patches) :
        /\ patches[k].center_x2 = patches[k].i + patches[k].j
        /\ patches[k].width = Abs(patches[k].j - patches[k].i)
        /\ patches[k].height = Abs(patches[k].j - patches[k].i)
        /\ patches[k].width >= 0
    /\ \A a, b \in 1..Len(patches) :
        (patches[a].i = patches[b].j /\ patches[a].j = patches[b].i) =>
            /\ patches[a].center_x2 = patches[b].center_x2
            /\ patches[a].width = patches[b].width

\* C9: for a call with start_nt <= end_nt that completed, fig_width is the
\* exact quotient (end_nt - start_nt) / 4.
C9_Width ==
    (pc = "done" /\ start_nt <= end_nt) => 4 * fig_width = end_nt - start_nt

C11_StableOrder ==
    \A a, b \in 1..Len(patches) :
        a < b =>
            \/ patches[a].priority < patches[b].priority
            \/ /\ patches[a].priority = patches[b].priority
               /\ patches[a].idx < patches[b].idx

\* C11 witness: two arcs of equal priority and different spans were drawn.
C11_Witness ==
    /\ pc = "done"
    /\ \E a, b \in 1..Len(patches) :
        /\ a < b
        /\ patches[a].priority = patches[b].priority
        /\ patches[a].width # patches[b].width

\* C12: a call that fails leaves every output path either absent or holding
\* the complete content it had before the call.
C12_AtomicPublish ==
    [][(calls' = calls + 1 /\ pc' = "raised") =>
        \A x \in Exts :
            \/ ~files'[x].exists
            \/ files'[x].complete /\ files'[x] = files[x]]_vars

\* C13: in a call of predict_rna_structure_prob the steps run in the order
\* Fold, Partition, ProbabilityPlot, copy, each only if every earlier step
\* exited with status 0; the .dp file is written and 'Dot plot file generated'
\* is printed only when all three tools succeeded, and the .dp content then
\* derives from this call, never from a .prob file an earlier call left.
C13_StepsGated ==
    pcalls > 0 =>
        LET order == <<"Fold", "Partition", "ProbabilityPlot", "copy">>
            all_ok == \A t \in Tools : exits[t] = "ok"
        IN /\ Len(steps) <= 4
           /\ \A k \in 1..Len(steps) : steps[k] = order[k]
           /\ \A k \in 2..Len(steps) : \A m \in 1..(k - 1) : exits[order[m]] = "ok"
           /\ "Dot plot file generated" \in printed => all_ok
           /\ "Converted .prob to .dp format" \in printed =>
                (all_ok /\ out_dir["dp"] = pcalls)

====
